---- MODULE Spec2Model ----
(***************************************************************************)
(* Model of spotify-linker: the Telegram webhook handler, the text parser, *)
(* the caption patcher and the Spotify / Telegram clients.                 *)
(*                                                                         *)
(* Strings are sequences of one-character strings.  An Optional[str] that  *)
(* is None is the value Null; an optional object is a sequence of length   *)
(* 0 (None) or 1 (the object).                                             *)
(***************************************************************************)
EXTENDS Integers, Sequences, FiniteSets, TLC

\* ------------------------------------------------------------------ bounds
MaxCaptionLen == 2
MaxRequests == 2
MaxInFlight == 2
MaxTime == 1
MaxPatchLen == 3
MaxQueryLen == 4

\* -------------------------------------------------------- program constants
DefaultBufferSeconds == 5
DefaultExpiresIn == 3600
HTTP_OK == 200
HTTP_204_NO_CONTENT == 204
\* the framework's answer when an exception leaves the handler
HTTP_500 == 500

\* ----------------------------------------------------------------- strings
Null == <<"null">>
None == <<>>
Some(x) == <<x>>

\* str.isspace() for the characters of the model's alphabet
Whitespace == {" ", "\n", "\r", "\t"}

RECURSIVE LStrip(_)
LStrip(s) ==
    IF s = <<>> THEN <<>>
    ELSE IF Head(s) \in Whitespace THEN LStrip(Tail(s)) ELSE s

RECURSIVE RStrip(_)
RStrip(s) ==
    IF s = <<>> THEN <<>>
    ELSE IF s[Len(s)] \in Whitespace THEN RStrip(SubSeq(s, 1, Len(s) - 1)) ELSE s

Strip(s) == LStrip(RStrip(s))

\* Python's `sub in s`
Contains(s, sub) ==
    \E i \in 0..(Len(s) - Len(sub)) : SubSeq(s, i + 1, i + Len(sub)) = sub

\* Python truthiness of an Optional[str]
Truthy(s) == s # Null /\ s # <<>>

\* `a or b` for Optional[str] operands
StrOr(a, b) == IF Truthy(a) THEN a ELSE b

\* str(int) for the integers of the model
DigitChar(d) ==
    CASE d = 0 -> "0" [] d = 1 -> "1" [] d = 2 -> "2" [] d = 3 -> "3" [] d = 4 -> "4"
      [] d = 5 -> "5" [] d = 6 -> "6" [] d = 7 -> "7" [] d = 8 -> "8" [] d = 9 -> "9"

RECURSIVE NatToStr(_)
NatToStr(n) ==
    IF n < 10 THEN <<DigitChar(n)>>
    ELSE NatToStr(n \div 10) \o <<DigitChar(n % 10)>>

IntToStr(n) == IF n < 0 THEN <<"-">> \o NatToStr(0 - n) ELSE NatToStr(n)

\* all strings over alphabet A of length at most n
StringsUpTo(A, n) == UNION {[1..k -> A] : k \in 0..n}

\* ------------------------------------------------------------ text parser
\* re.sub(r"\s+", " ", s): every run of whitespace becomes one space
RECURSIVE CollapseWhitespace(_)
CollapseWhitespace(s) ==
    IF s = <<>> THEN <<>>
    ELSE IF Head(s) \in Whitespace THEN <<" ">> \o CollapseWhitespace(LStrip(s))
    ELSE <<Head(s)>> \o CollapseWhitespace(Tail(s))

\* faulty variant: the query is trimmed but its inner whitespace is kept
extract_track_query_no_collapse(content) ==
    IF content = Null THEN Null
    ELSE IF Strip(content) = <<>> THEN Null ELSE Strip(content)

extract_track_query(content) ==
    IF content = Null THEN Null
    ELSE LET cleaned == Strip(content) IN
         IF cleaned = <<>> THEN Null
         ELSE LET normalized == CollapseWhitespace(cleaned) IN
              IF normalized = <<>> THEN Null ELSE normalized

\* the characters of [-<en dash><em dash>]
Dashes == {"-", "endash", "emdash"}

\* index of the first dash of s, 0 when there is none
FirstDash(s) ==
    IF \E i \in 1..Len(s) : s[i] \in Dashes
    THEN CHOOSE i \in 1..Len(s) : s[i] \in Dashes /\ \A j \in 1..(i - 1) : s[j] \notin Dashes
    ELSE 0

\* index of the last dash of s, 0 when there is none
LastDash(s) ==
    IF \E i \in 1..Len(s) : s[i] \in Dashes
    THEN CHOOSE i \in 1..Len(s) : s[i] \in Dashes /\ \A j \in (i + 1)..Len(s) : s[j] \notin Dashes
    ELSE 0

\* faulty variant: the query is split at its last dash
PatternSplit_last_dash(query) ==
    LET d == LastDash(query) IN
    IF d = 0 THEN <<query>>
    ELSE <<RStrip(SubSeq(query, 1, d - 1)), LStrip(SubSeq(query, d + 1, Len(query)))>>

\* _ARTIST_TITLE_PATTERN.split(query, maxsplit=1): the leftmost match of
\* \s*[-..]\s* is the first dash with the whitespace runs around it
PatternSplit(query) ==
    LET d == FirstDash(query) IN
    IF d = 0 THEN <<query>>
    ELSE <<RStrip(SubSeq(query, 1, d - 1)), LStrip(SubSeq(query, d + 1, Len(query)))>>

\* None (<<>>) or Some(<<artist, title>>)
split_artist_title(query) ==
    IF ~Truthy(query) THEN None
    ELSE LET parts == PatternSplit(query) IN
         IF Len(parts) # 2 THEN None
         ELSE LET artist == Strip(parts[1])
                  title == Strip(parts[2]) IN
              IF artist = <<>> \/ title = <<>> THEN None
              ELSE Some(<<artist, title>>)

\* faulty variant: the candidate keeps the normalized query as its raw content
build_track_candidate_raw_query(content) ==
    IF content = Null THEN None
    ELSE LET query == extract_track_query(content) IN
         IF query = Null THEN None
         ELSE LET artist_title == split_artist_title(query) IN
              Some([raw_content |-> query,
                    query |-> query,
                    artist |-> IF artist_title # None THEN artist_title[1][1] ELSE Null,
                    title |-> IF artist_title # None THEN artist_title[1][2] ELSE Null])

\* None (<<>>) or Some(TrackCandidate)
build_track_candidate(content) ==
    IF content = Null THEN None
    ELSE LET query == extract_track_query(content) IN
         IF query = Null THEN None
         ELSE LET artist_title == split_artist_title(query) IN
              Some([raw_content |-> content,
                    query |-> query,
                    artist |-> IF artist_title # None THEN artist_title[1][1] ELSE Null,
                    title |-> IF artist_title # None THEN artist_title[1][2] ELSE Null])

\* --------------------------------------------------------- text extractor
\* index of the last occurrence of ch in s, 0 when there is none
LastIndexOf(s, ch) ==
    IF \E i \in 1..Len(s) : s[i] = ch
    THEN CHOOSE i \in 1..Len(s) : s[i] = ch /\ \A j \in (i + 1)..Len(s) : s[j] # ch
    ELSE 0

\* Path(file_name).stem: the last path component without its final suffix
PathStem(file_name) ==
    LET trimmed == IF Len(file_name) > 1 /\ file_name[Len(file_name)] = "/"
                   THEN SubSeq(file_name, 1, Len(file_name) - 1) ELSE file_name
        slash == LastIndexOf(trimmed, "/")
        name == SubSeq(trimmed, slash + 1, Len(trimmed))
        dot == LastIndexOf(name, ".")
    IN IF name = <<".">> THEN <<>>
       ELSE IF 1 < dot /\ dot < Len(name) THEN SubSeq(name, 1, dot - 1) ELSE name

\* str.replace("_", " ")
RECURSIVE ReplaceUnderscore(_)
ReplaceUnderscore(s) ==
    IF s = <<>> THEN <<>>
    ELSE <<IF Head(s) = "_" THEN " " ELSE Head(s)>> \o ReplaceUnderscore(Tail(s))

\* faulty variant: the file-name stem is used as it is
AudioCandidate_raw_stem(audio) ==
    LET performer == Strip(StrOr(audio.performer, <<>>))
        title == Strip(StrOr(audio.title, <<>>))
        joined == IF performer # <<>> /\ title # <<>>
                  THEN performer \o <<" ", "-", " ">> \o title
                  ELSE IF performer # <<>> THEN performer ELSE title
    IN IF joined = <<>> /\ Truthy(audio.file_name) THEN PathStem(audio.file_name) ELSE joined

\* the text derived from audio metadata (<<>> when nothing usable)
AudioCandidate(audio) ==
    LET performer == Strip(StrOr(audio.performer, <<>>))
        title == Strip(StrOr(audio.title, <<>>))
        joined == IF performer # <<>> /\ title # <<>>
                  THEN performer \o <<" ", "-", " ">> \o title
                  ELSE IF performer # <<>> THEN performer ELSE title
        candidate == IF joined = <<>> /\ Truthy(audio.file_name)
                     THEN Strip(ReplaceUnderscore(PathStem(audio.file_name)))
                     ELSE joined
    IN Strip(candidate)

get_message_text(message) ==
    IF Truthy(message.caption) THEN message.caption
    ELSE IF Truthy(message.text) THEN message.text
    ELSE IF message.audio # None /\ AudioCandidate(message.audio[1]) # <<>>
         THEN AudioCandidate(message.audio[1])
    ELSE Null

\* faulty variant: the direct message wins over the channel post
extract_relevant_message_prefers_message(payload) ==
    IF payload.message # None THEN payload.message ELSE payload.channel_post

\* None (<<>>) or Some(message): the channel post wins over the message
extract_relevant_message(payload) ==
    IF payload.channel_post # None THEN payload.channel_post ELSE payload.message

\* --------------------------------------------------------- caption patcher
SPOTIFY_LINK_PREFIX == <<"headphone", " ">>
TrackUrlBase == <<"h", "/">>

\* faulty variant: no link is synthesized from the id
build_spotify_link_without_fallback(summary) == summary.external_url

build_spotify_link(summary) ==
    IF summary.external_url # <<>> THEN summary.external_url
    ELSE IF summary.id # <<>> THEN TrackUrlBase \o summary.id
    ELSE <<>>

EndsWithNewline(s) == s # <<>> /\ s[Len(s)] \in {"\n", "\r"}

\* faulty variant: the link line is appended without looking for it in the caption
build_caption_always_append(existing_caption, summary) ==
    LET link == Strip(build_spotify_link(summary)) IN
    IF link = <<>> THEN Null
    ELSE LET current == StrOr(existing_caption, <<>>)
             link_line == SPOTIFY_LINK_PREFIX \o link IN
         IF Strip(current) # <<>>
         THEN IF EndsWithNewline(current) THEN current \o link_line
              ELSE RStrip(current) \o <<"\n">> \o link_line
         ELSE link_line

\* faulty variant: the caption is always trimmed before the link line is added
build_caption_always_trim(existing_caption, summary) ==
    LET link == Strip(build_spotify_link(summary)) IN
    IF link = <<>> THEN Null
    ELSE LET current == StrOr(existing_caption, <<>>)
             link_line == SPOTIFY_LINK_PREFIX \o link IN
         IF Contains(current, link_line) \/ Contains(current, link) THEN current
         ELSE IF Strip(current) # <<>> THEN RStrip(current) \o <<"\n">> \o link_line
              ELSE link_line

\* Null is the "no link" result (Python None)
build_caption_with_spotify_link(existing_caption, summary) ==
    LET link == Strip(build_spotify_link(summary)) IN
    IF link = <<>> THEN Null
    ELSE LET current == StrOr(existing_caption, <<>>)
             link_line == SPOTIFY_LINK_PREFIX \o link IN
         IF Contains(current, link_line) \/ Contains(current, link) THEN current
         ELSE IF Strip(current) # <<>>
              THEN IF EndsWithNewline(current) THEN current \o link_line
                   ELSE RStrip(current) \o <<"\n">> \o link_line
              ELSE link_line

\* ------------------------------------------------------------ JSON values
\* A JSON value of an upstream body is a tagged record: absent key, null, a
\* string, a number, an object (map) or an array (seq).
JAbsent == [t |-> "absent"]
JNull == [t |-> "null"]
JStr(v) == [t |-> "str", v |-> v]
JNum(n) == [t |-> "num", v |-> n]
JBool(b) == [t |-> "bool", v |-> b]
JMap(m) == [t |-> "map", v |-> m]
JSeq(q) == [t |-> "seq", v |-> q]

\* dict.get(key) maps an absent key to None
GetOrNull(j) == IF j.t = "absent" THEN JNull ELSE j

\* dict.get(key, "") maps an absent key to the empty string
GetOrEmpty(j) == IF j.t = "absent" THEN JStr(<<>>) ELSE j

\* Python str() of a JSON scalar
PyStr(j) ==
    CASE j.t = "str" -> j.v
      [] j.t = "null" -> <<"N", "o", "n", "e">>
      [] j.t = "num" -> IntToStr(j.v)
      [] OTHER -> <<"?">>

\* An HTTP exchange either fails below HTTP (timeout, connection error) or
\* yields a status and a body; the body is not JSON, or a JSON value.
NetTimeout == [net |-> "httpx.TimeoutException"]
NetConnect == [net |-> "httpx.ConnectError"]
Reply(status, body) == [net |-> "ok", status |-> status, body |-> body]
NotJson == [t |-> "notjson"]

\* ---------------------------------------------------------- Spotify client
DefaultTokenType == <<"B", "e", "a", "r", "e", "r">>

\* faulty variant: the token still counts as fresh at the threshold itself
is_expired_after_threshold(token, buffer_seconds, clock) ==
    clock > (token.acquired_at + token.expires_in) - buffer_seconds

\* SpotifyAccessToken.is_expired
is_expired(token, buffer_seconds, clock) ==
    clock >= (token.acquired_at + token.expires_in) - buffer_seconds

\* get_access_token: TRUE when the cached token is returned without a request
CacheUsable(cache, force_refresh, buffer_seconds, clock) ==
    /\ ~force_refresh
    /\ cache # None
    /\ ~is_expired(cache[1], buffer_seconds, clock)

\* get_client_credentials_token._request_token on a reply:
\* [ok |-> TRUE, token |-> ...] or [ok |-> FALSE, error |-> exception kind]
request_token_result(resp, clock) ==
    IF resp.net # "ok" THEN [ok |-> FALSE, error |-> resp.net]
    ELSE IF resp.status # HTTP_OK
    THEN IF resp.body.t \in {"notjson", "map"}
         THEN [ok |-> FALSE, error |-> "SpotifyAuthenticationError"]
         ELSE [ok |-> FALSE, error |-> "AttributeError"]
    ELSE IF resp.body.t = "notjson" THEN [ok |-> FALSE, error |-> "ValueError"]
    ELSE IF resp.body.t # "map" THEN [ok |-> FALSE, error |-> "TypeError"]
    ELSE IF resp.body.v.access_token.t = "absent" THEN [ok |-> FALSE, error |-> "KeyError"]
    ELSE [ok |-> TRUE,
          token |-> [access_token |-> resp.body.v.access_token.v,
                     token_type |-> IF resp.body.v.token_type.t = "absent"
                                    THEN DefaultTokenType ELSE resp.body.v.token_type.v,
                     expires_in |-> IF resp.body.v.expires_in.t = "absent"
                                    THEN DefaultExpiresIn ELSE resp.body.v.expires_in.v,
                     acquired_at |-> clock]]

\* get_access_token up to its await: the cached token it returns at once, or
\* the token request it goes on to make
get_access_token_begin(cache, force_refresh, buffer_seconds, clock) ==
    IF CacheUsable(cache, force_refresh, buffer_seconds, clock)
    THEN [request |-> FALSE, token |-> cache[1]]
    ELSE [request |-> TRUE]

\* faulty variant: the token fetched is returned but never stored
get_access_token_end_without_store(cache, result) ==
    [cache |-> cache, result |-> result]

\* faulty variant: a failed token request clears the cache
get_access_token_end_clearing(cache, result) ==
    [cache |-> IF result.ok THEN Some(result.token) ELSE None, result |-> result]

\* get_access_token after get_client_credentials_token ended with `result`:
\* the cache it leaves and what it returns or raises
get_access_token_end(cache, result) ==
    [cache |-> IF result.ok THEN Some(result.token) ELSE cache, result |-> result]

\* the elements of items that are objects, in order
RECURSIVE ItemMappings(_)
ItemMappings(items) ==
    IF items = <<>> THEN <<>>
    ELSE IF Head(items).t = "map" THEN <<Head(items)>> \o ItemMappings(Tail(items))
    ELSE ItemMappings(Tail(items))

\* faulty variant: the name of every artist object is taken, whatever its type
RECURSIVE ArtistNames_unchecked(_)
ArtistNames_unchecked(artists) ==
    IF artists = <<>> THEN <<>>
    ELSE IF Head(artists).t = "map"
         THEN <<PyStr(GetOrNull(Head(artists).v.name))>> \o ArtistNames_unchecked(Tail(artists))
    ELSE ArtistNames_unchecked(Tail(artists))

\* the names of the artist entries that are objects with a string name
RECURSIVE ArtistNames(_)
ArtistNames(artists) ==
    IF artists = <<>> THEN <<>>
    ELSE IF Head(artists).t = "map" /\ Head(artists).v.name.t = "str"
         THEN <<Head(artists).v.name.v>> \o ArtistNames(Tail(artists))
    ELSE ArtistNames(Tail(artists))

\* the external URL of the first item
ExternalUrl(first_raw) ==
    IF first_raw.external_urls.t = "map"
    THEN LET spotify_url == GetOrNull(first_raw.external_urls.v.spotify) IN
         IF spotify_url.t = "null" THEN <<>> ELSE PyStr(spotify_url)
    ELSE <<>>

\* a body of no characters, and response.text of a body
EmptyBody == [t |-> "empty"]
ResponseText(body) == IF body.t = "empty" THEN <<>> ELSE <<"raw">>

\* Python truthiness of a JSON value
JTruthy(j) ==
    CASE j.t = "str" -> j.v # <<>>
      [] j.t = "num" -> j.v # 0
      [] j.t = "bool" -> j.v
      [] j.t = "seq" -> j.v # <<>>
      [] j.t = "map" -> TRUE
      [] OTHER -> FALSE

UnknownError == <<"Unknown error">>

\* faulty variant: the detail is always the response text
search_error_detail_text_only(resp) ==
    IF ResponseText(resp.body) # <<>>
    THEN [from |-> "response.text", value |-> ResponseText(resp.body)]
    ELSE [from |-> "default", value |-> UnknownError]

\* the `detail` of the SpotifyAPIError raised for a non-200 search reply, with
\* the part of the response it was taken from
search_error_detail(resp) ==
    LET error_obj == IF resp.body.t = "map" THEN GetOrNull(resp.body.v.error) ELSE JNull IN
    IF error_obj.t = "map"
    THEN LET message == GetOrNull(error_obj.v.message) IN
         IF message.t # "null" THEN [from |-> "error.message", value |-> PyStr(message)]
         ELSE [from |-> "error", value |-> PyStr(error_obj)]
    ELSE IF JTruthy(error_obj) THEN [from |-> "error", value |-> PyStr(error_obj)]
    ELSE IF ResponseText(resp.body) # <<>>
         THEN [from |-> "response.text", value |-> ResponseText(resp.body)]
    ELSE [from |-> "default", value |-> UnknownError]

\* search_track._perform_search on a reply:
\* [ok |-> TRUE, summary |-> None or Some(summary)] or [ok |-> FALSE, error |-> kind]
perform_search_result(resp) ==
    IF resp.net # "ok" THEN [ok |-> FALSE, error |-> resp.net]
    ELSE IF resp.status # HTTP_OK
    THEN [ok |-> FALSE, error |-> "SpotifyAPIError", status_shown |-> TRUE,
          detail |-> search_error_detail(resp)]
    ELSE IF resp.body.t # "map"
    THEN [ok |-> FALSE, error |-> "SpotifyAPIError", status_shown |-> FALSE,
          detail |-> [from |-> "none", value |-> <<>>]]
    ELSE IF resp.body.v.tracks.t # "map" THEN [ok |-> TRUE, summary |-> None]
    ELSE IF resp.body.v.tracks.v.items.t \notin {"seq", "str"} THEN [ok |-> TRUE, summary |-> None]
    ELSE LET item_mappings == IF resp.body.v.tracks.v.items.t = "seq"
                              THEN ItemMappings(resp.body.v.tracks.v.items.v)
                              ELSE <<>> IN
         IF item_mappings = <<>> THEN [ok |-> TRUE, summary |-> None]
         ELSE LET first_raw == item_mappings[1].v IN
              [ok |-> TRUE,
               summary |-> Some([id |-> PyStr(GetOrEmpty(first_raw.id)),
                                 name |-> PyStr(GetOrEmpty(first_raw.name)),
                                 artists |-> IF first_raw.artists.t = "seq"
                                             THEN ArtistNames(first_raw.artists.v)
                                             ELSE <<>>,
                                 external_url |-> ExternalUrl(first_raw)])]

\* --------------------------------------------------------- Telegram client
\* faulty variant: the caption is posted as given
edit_message_caption_request_unstripped(client, message_id, caption, chat_id) ==
    LET caption_to_use == Strip(caption)
        target_chat == StrOr(chat_id, client.channel_id) IN
    IF caption_to_use = <<>> THEN [ok |-> FALSE, error |-> "ValueError"]
    ELSE IF ~Truthy(target_chat) THEN [ok |-> FALSE, error |-> "ValueError"]
    ELSE [ok |-> TRUE,
          payload |-> [chat_id |-> target_chat,
                       message_id |-> message_id,
                       caption |-> caption]]

\* edit_message_caption up to the request: the ValueError it raises before
\* any request, or the editMessageCaption payload it posts
edit_message_caption_request(client, message_id, caption, chat_id) ==
    LET caption_to_use == Strip(caption)
        target_chat == StrOr(chat_id, client.channel_id) IN
    IF caption_to_use = <<>> THEN [ok |-> FALSE, error |-> "ValueError"]
    ELSE IF ~Truthy(target_chat) THEN [ok |-> FALSE, error |-> "ValueError"]
    ELSE [ok |-> TRUE,
          payload |-> [chat_id |-> target_chat,
                       message_id |-> message_id,
                       caption |-> caption_to_use]]

\* edit_message_caption._post on a reply: "" when the response object is
\* returned, the exception kind otherwise
edit_message_caption_error(resp) ==
    IF resp.net # "ok" THEN resp.net
    ELSE IF resp.status # HTTP_OK THEN "TelegramAPIError"
    ELSE IF resp.body.t # "map" THEN "TelegramAPIError"
    ELSE IF ~JTruthy(resp.body.v.ok) THEN "TelegramAPIError"
    ELSE ""

\* ----------------------------------------------------------------- startup
\* validate_critical_settings: the names it warns about; it never raises
validate_critical_settings(settings) ==
    {n \in {"TELEGRAM_BOT_TOKEN", "SPOTIFY_CLIENT_ID", "SPOTIFY_CLIENT_SECRET"} :
        \/ n = "TELEGRAM_BOT_TOKEN" /\ ~Truthy(settings.telegram_bot_token)
        \/ n = "SPOTIFY_CLIENT_ID" /\ ~Truthy(settings.spotify_client_id)
        \/ n = "SPOTIFY_CLIENT_SECRET" /\ ~Truthy(settings.spotify_client_secret)}

\* build_spotify_client: the client, or the error it raises
build_spotify_client(settings) ==
    IF ~Truthy(settings.spotify_client_id) \/ ~Truthy(settings.spotify_client_secret)
    THEN [ok |-> FALSE, error |-> "SpotifyClientConfigError"]
    ELSE [ok |-> TRUE,
          client |-> [client_id |-> settings.spotify_client_id,
                      client_secret |-> settings.spotify_client_secret]]

\* lifespan up to its yield: the exception that ends startup ("": none) and
\* the attributes of app.state while the application runs, read as the
\* handler reads them (an attribute never set reads as None)
lifespan(settings) ==
    IF Truthy(settings.spotify_client_id) /\ Truthy(settings.spotify_client_secret)
    THEN LET b == build_spotify_client(settings) IN
         IF b.ok
         THEN [raised |-> "", warned |-> validate_critical_settings(settings),
               spotify_client |-> Some(b.client), telegram_client |-> None]
         ELSE [raised |-> b.error, warned |-> validate_critical_settings(settings),
               spotify_client |-> None, telegram_client |-> None]
    ELSE [raised |-> "", warned |-> validate_critical_settings(settings),
          spotify_client |-> None, telegram_client |-> None]

\* lifespan after its yield
lifespan_shutdown(state) == [state EXCEPT !.spotify_client = None]

\* ------------------------------------------------------ webhook orchestrator
\* `except Exception` of lookup_candidate_on_spotify
ExceptionKinds ==
    {"SpotifyAuthenticationError", "SpotifyAPIError", "TelegramAPIError", "ValueError",
     "KeyError", "TypeError", "AttributeError", "httpx.TimeoutException",
     "httpx.ConnectError"}

\* faulty variant: only the Spotify client's own errors are caught
LookupCatchesSpotifyErrors(error) ==
    error \in {"SpotifyAuthenticationError", "SpotifyAPIError"}

LookupCatches(error) == error \in ExceptionKinds

\* `except TelegramAPIError` of update_telegram_caption_with_spotify_link
UpdateCatches(error) == error = "TelegramAPIError"

\* A step is where a handler goes next: it awaits a reply to a request it has
\* just issued, or it responds.
Respond(status, error) == [next |-> "done", status |-> status, error |-> error]
AwaitToken == [next |-> "await_token"]
\* get_client_credentials_token built its token and awaits the close of the
\* HTTP client it opened; get_access_token stores the token after that
CloseToken == [next |-> "close_token"]
AwaitSearch(token, query) == [next |-> "await_search", token |-> token, query |-> query]
AwaitEdit(payload) == [next |-> "await_edit", payload |-> payload]

\* search_track after get_access_token returned `token`
search_track_request(token, query) == AwaitSearch(token, query)

\* search_track up to its first await
search_track_begin(cache, clock, query) ==
    IF CacheUsable(cache, FALSE, DefaultBufferSeconds, clock)
    THEN search_track_request(cache[1], query)
    ELSE AwaitToken

\* faulty variant: the lookup is started whether or not a Spotify client is configured
handle_begin_without_client_check(payload, spotify_client, cache, clock) ==
    LET message == extract_relevant_message(payload) IN
    IF message = None THEN Respond(HTTP_204_NO_CONTENT, "")
    ELSE LET raw_content == get_message_text(message[1]) IN
         IF raw_content = Null \/ Strip(raw_content) = <<>>
         THEN Respond(HTTP_204_NO_CONTENT, "")
         ELSE LET candidate == build_track_candidate(raw_content) IN
              IF candidate # None /\ Truthy(candidate[1].query)
              THEN search_track_begin(cache, clock, candidate[1].query)
              ELSE Respond(HTTP_204_NO_CONTENT, "")

\* faulty variant: an update without a message is looked up with an empty query
handle_begin_without_message_check(payload, spotify_client, cache, clock) ==
    LET message == extract_relevant_message(payload) IN
    IF message = None THEN search_track_begin(cache, clock, <<>>)
    ELSE LET raw_content == get_message_text(message[1]) IN
         IF raw_content = Null \/ Strip(raw_content) = <<>>
         THEN Respond(HTTP_204_NO_CONTENT, "")
         ELSE LET candidate == build_track_candidate(raw_content) IN
              IF spotify_client /\ candidate # None /\ Truthy(candidate[1].query)
              THEN search_track_begin(cache, clock, candidate[1].query)
              ELSE Respond(HTTP_204_NO_CONTENT, "")

\* handle_telegram_webhook up to its first await
handle_begin(payload, spotify_client, cache, clock) ==
    LET message == extract_relevant_message(payload) IN
    IF message = None THEN Respond(HTTP_204_NO_CONTENT, "")
    ELSE LET raw_content == get_message_text(message[1]) IN
         IF raw_content = Null \/ Strip(raw_content) = <<>>
         THEN Respond(HTTP_204_NO_CONTENT, "")
         ELSE LET candidate == build_track_candidate(raw_content) IN
              IF spotify_client /\ candidate # None /\ Truthy(candidate[1].query)
              THEN search_track_begin(cache, clock, candidate[1].query)
              ELSE Respond(HTTP_204_NO_CONTENT, "")

\* faulty variant: the edit is made even when the patched caption equals the caption
update_caption_decision_always_edit(source_message, summary) ==
    IF source_message = None THEN [edit |-> FALSE, why |-> "source_missing"]
    ELSE LET m == source_message[1]
             new_caption == build_caption_with_spotify_link(m.caption, summary) IN
         IF new_caption = Null THEN [edit |-> FALSE, why |-> "link_unavailable"]
         ELSE [edit |-> TRUE,
               call |-> [message_id |-> m.message_id,
                         caption |-> new_caption,
                         chat_id |-> IF m.chat # None THEN IntToStr(m.chat[1].id) ELSE Null]]

\* update_telegram_caption_with_spotify_link up to the client call
update_caption_decision(source_message, summary) ==
    IF source_message = None THEN [edit |-> FALSE, why |-> "source_missing"]
    ELSE LET m == source_message[1]
             new_caption == build_caption_with_spotify_link(m.caption, summary)
             current_caption == StrOr(m.caption, <<>>) IN
         IF new_caption = Null THEN [edit |-> FALSE, why |-> "link_unavailable"]
         ELSE IF new_caption = current_caption THEN [edit |-> FALSE, why |-> "already_present"]
         ELSE [edit |-> TRUE,
               call |-> [message_id |-> m.message_id,
                         caption |-> new_caption,
                         chat_id |-> IF m.chat # None THEN IntToStr(m.chat[1].id) ELSE Null]]

\* an exception leaving edit_message_caption inside the caption update
update_on_error(error) ==
    IF UpdateCatches(error) THEN Respond(HTTP_204_NO_CONTENT, "")
    ELSE Respond(HTTP_500, error)

\* lookup_candidate_on_spotify given how search_track ended
lookup_candidate_result(result) ==
    IF result.ok THEN [raised |-> FALSE, summary |-> result.summary]
    ELSE IF LookupCatches(result.error) THEN [raised |-> FALSE, summary |-> None]
    ELSE [raised |-> TRUE, error |-> result.error]

\* the handler after lookup_candidate_on_spotify returned `summary`:
\* the edit_message_caption calls it makes and its next step
handle_after_lookup(summary, telegram_client, message) ==
    IF summary = None \/ telegram_client = None
    THEN [summary |-> summary, calls |-> <<>>, step |-> Respond(HTTP_204_NO_CONTENT, "")]
    ELSE LET d == update_caption_decision(message, summary[1]) IN
         IF ~d.edit
         THEN [summary |-> summary, calls |-> <<>>, step |-> Respond(HTTP_204_NO_CONTENT, "")]
         ELSE LET r == edit_message_caption_request(telegram_client[1], d.call.message_id,
                                                    d.call.caption, d.call.chat_id) IN
              [summary |-> summary,
               calls |-> <<d.call>>,
               step |-> IF r.ok THEN AwaitEdit(r.payload) ELSE update_on_error(r.error)]

\* the handler from the end of search_track (`result`) to its next await
handle_after_search(result, telegram_client, message) ==
    LET l == lookup_candidate_result(result) IN
    IF l.raised
    THEN [summary |-> None, calls |-> <<>>, step |-> Respond(HTTP_500, l.error)]
    ELSE handle_after_lookup(l.summary, telegram_client, message)

\* faulty variant: an edit that failed with TelegramAPIError is posted again
handle_after_edit_retry(error, payload) ==
    IF error = "" THEN Respond(HTTP_204_NO_CONTENT, "")
    ELSE IF error = "TelegramAPIError" THEN AwaitEdit(payload)
    ELSE update_on_error(error)

\* the handler after the edit_message_caption call that posted `payload`
\* ended with `error` ("" for none)
handle_after_edit(error, payload) ==
    IF error = "" THEN Respond(HTTP_204_NO_CONTENT, "") ELSE update_on_error(error)

\* ------------------------------------------------------------------ inputs
CaptionChars == {"a", " "}
Captions == {Null} \cup StringsUpTo(CaptionChars, MaxCaptionLen)
Texts == {<<" ", "t", " ", "\n", "t">>}
Audios == {None, Some([performer |-> <<"p">>, title |-> <<"s">>, file_name |-> Null])}
Chats == {None, Some([id |-> -20])}
\* media messages (an optional caption, optional audio metadata, no text) and
\* text messages, whose caption is absent or blank
Posts ==
    [message_id : {77}, caption : Captions, text : {Null}, audio : Audios, chat : Chats]
    \cup [message_id : {77}, caption : {Null, <<" ">>}, text : Texts, audio : {None},
          chat : Chats]
OtherMessage ==
    [message_id |-> 78, caption |-> Null, text |-> <<"o">>, audio |-> None, chat |-> None]
Shapes == {"channel_post", "message", "both", "neither"}

\* the Update Telegram delivers about message m
Update(shape, m) ==
    [update_id |-> 1,
     channel_post |-> IF shape \in {"channel_post", "both"} THEN Some(m) ELSE None,
     message |-> IF shape = "message" THEN Some(m)
                 ELSE IF shape = "both" THEN Some(OtherMessage) ELSE None]

\* app.state.telegram_client as the handler may find it: absent, or a client
\* whose channel_id is empty or set
TelegramClients == {None, Some([channel_id |-> <<>>]), Some([channel_id |-> <<"c">>])}

TokenBody(expires_in) ==
    JMap([access_token |-> JStr(<<"k">>), token_type |-> JAbsent, expires_in |-> expires_in])
TokenReplies ==
    {NetTimeout, NetConnect,
     Reply(401, NotJson), Reply(401, JMap([error |-> JStr(<<"e">>)])), Reply(401, JSeq(<<>>)),
     Reply(200, NotJson), Reply(200, JSeq(<<>>)),
     Reply(200, JMap([access_token |-> JAbsent, token_type |-> JAbsent, expires_in |-> JAbsent])),
     Reply(200, TokenBody(JNum(5))), Reply(200, TokenBody(JNum(6))), Reply(200, TokenBody(JAbsent))}

Item(id, urls) ==
    JMap([id |-> id, name |-> JStr(<<"n">>), artists |-> JSeq(<<>>), external_urls |-> urls])
SpotifyUrl(u) == JMap([spotify |-> JStr(u)])
Items ==
    {Item(id, urls) : id \in {JAbsent, JStr(<<"7">>)},
                      urls \in {JAbsent, SpotifyUrl(<<"u">>), SpotifyUrl(<<" ", "u">>)}}
SearchBody(items) == JMap([tracks |-> JMap([items |-> items])])
SearchReplies ==
    {NetTimeout, NetConnect, Reply(500, NotJson), Reply(200, NotJson), Reply(200, JSeq(<<>>)),
     Reply(200, JMap([tracks |-> JAbsent])), Reply(200, SearchBody(JSeq(<<>>)))}
    \cup {Reply(200, SearchBody(JSeq(<<JNull, i>>))) : i \in Items}

EditReplies ==
    {NetTimeout, NetConnect, Reply(400, NotJson), Reply(200, NotJson), Reply(200, JSeq(<<>>)),
     Reply(200, JMap([ok |-> JBool(FALSE)])), Reply(200, JMap([ok |-> JBool(TRUE)]))}

\* whether Telegram applied the edit, given the reply the client saw
EditApplied(resp) ==
    IF resp.net = "httpx.TimeoutException" THEN BOOLEAN
    ELSE IF resp.net # "ok" THEN {FALSE}
    ELSE {resp.status = HTTP_OK /\ resp.body.t = "map" /\ JTruthy(resp.body.v.ok)}

\* ------------------------------------------------------------------- state
Requests == 1..MaxInFlight

VARIABLES
    spotify_client,   \* app.state.spotify_client is a SpotifyClient
    telegram_client,  \* app.state.telegram_client: None or Some(client)
    token_cache,      \* SpotifyClient._token_cache: None or Some(token)
    fetched,          \* the token each get_access_token call is about to store
    now,              \* the clock
    post,             \* the message as Telegram holds it
    pc,               \* where each request's handler is
    message,          \* each handler's `message`
    query,            \* each handler's candidate.query
    summary,          \* each handler's `summary`
    token_requests,   \* token requests issued by each request
    search_requests,  \* search requests issued by each request
    edit_calls,       \* edit_message_caption calls made by each request
    edit_requests,    \* editMessageCaption requests issued by each request
    errors,           \* exceptions raised by the outbound calls of each request
    status,           \* the HTTP status answered (0: none yet)
    escaped,          \* the exception that left the handler ("": none)
    last_edit,        \* the last edit Telegram applied: None or Some([caption, link])
    after_edit,       \* last_edit when each request's update was delivered
    slots,            \* the handler slots that take requests
    delivered,        \* the number of updates delivered so far
    fn_arg,           \* the arguments of the function under direct test
    fn_out            \* its results so far

vars ==
    <<spotify_client, telegram_client, token_cache, fetched, now, post, pc, message, query,
      summary, token_requests, search_requests, edit_calls, edit_requests, errors, status,
      escaped, last_edit, after_edit, slots, delivered, fn_arg, fn_out>>

config == <<spotify_client, telegram_client, slots, fn_arg, fn_out>>

handler ==
    <<spotify_client, telegram_client, token_cache, fetched, now, post, pc, message, query,
      summary, token_requests, search_requests, edit_calls, edit_requests, errors, status,
      escaped, last_edit, after_edit, slots, delivered>>

\* the application after startup, before any update
Started(spotify, telegram, posts) ==
    /\ spotify_client \in spotify
    /\ telegram_client \in telegram
    /\ token_cache = None
    /\ fetched = [p \in Requests |-> None]
    /\ now = 0
    /\ post \in posts
    /\ pc = [p \in Requests |-> "idle"]
    /\ message = [p \in Requests |-> None]
    /\ query = [p \in Requests |-> Null]
    /\ summary = [p \in Requests |-> None]
    /\ token_requests = [p \in Requests |-> 0]
    /\ search_requests = [p \in Requests |-> <<>>]
    /\ edit_calls = [p \in Requests |-> <<>>]
    /\ edit_requests = [p \in Requests |-> <<>>]
    /\ errors = [p \in Requests |-> <<>>]
    /\ status = [p \in Requests |-> 0]
    /\ escaped = [p \in Requests |-> ""]
    /\ last_edit = None
    /\ after_edit = [p \in Requests |-> None]
    /\ slots = {1}
    /\ delivered = 0

Init ==
    /\ Started(BOOLEAN, TelegramClients, Posts)
    /\ fn_arg = <<>>
    /\ fn_out = <<>>

\* request p, whose history of requests is (tokens, searches, edits), takes
\* `step`: it issues the request the step awaits, or responds
Progress(p, step, tokens, searches, edits) ==
    /\ pc' = [pc EXCEPT ![p] = step.next]
    /\ token_requests' =
           [token_requests EXCEPT
               ![p] = IF step.next = "await_token" THEN tokens + 1 ELSE tokens]
    /\ search_requests' =
           [search_requests EXCEPT
               ![p] = IF step.next = "await_search"
                      THEN Append(searches, [token |-> step.token, query |-> step.query])
                      ELSE searches]
    /\ edit_requests' =
           [edit_requests EXCEPT
               ![p] = IF step.next = "await_edit" THEN Append(edits, step.payload)
                      ELSE edits]
    /\ status' = [status EXCEPT ![p] = IF step.next = "done" THEN step.status ELSE 0]
    /\ escaped' = [escaped EXCEPT ![p] = IF step.next = "done" THEN step.error ELSE ""]

\* request p takes `step` in the middle of its handling
Advance(p, step) ==
    Progress(p, step, token_requests[p], search_requests[p], edit_requests[p])

\* the query handle_telegram_webhook derives from the message (Null: none)
CandidateQuery(m) ==
    IF m = None THEN Null
    ELSE LET candidate == build_track_candidate(get_message_text(m[1])) IN
         IF candidate = None THEN Null ELSE candidate[1].query

\* POST /webhook/telegram arrives at a free slot: a fresh handler runs to its
\* first await
Receive(p) ==
    /\ p \in slots
    /\ pc[p] \in {"idle", "done"}
    /\ delivered < MaxRequests
    /\ delivered' = delivered + 1
    /\ \E shape \in Shapes :
          LET payload == Update(shape, post) IN
          /\ message' = [message EXCEPT ![p] = extract_relevant_message(payload)]
          /\ query' = [query EXCEPT ![p] = CandidateQuery(extract_relevant_message(payload))]
          /\ Progress(p, handle_begin(payload, spotify_client, token_cache, now),
                      0, <<>>, <<>>)
    /\ after_edit' = [after_edit EXCEPT ![p] = last_edit]
    /\ summary' = [summary EXCEPT ![p] = None]
    /\ edit_calls' = [edit_calls EXCEPT ![p] = <<>>]
    /\ errors' = [errors EXCEPT ![p] = <<>>]
    /\ UNCHANGED <<config, token_cache, fetched, now, post, last_edit>>

\* the handler's step once search_track ended with `result`
AfterSearch(p, result) ==
    LET h == handle_after_search(result, telegram_client, message[p]) IN
    /\ summary' = [summary EXCEPT ![p] = h.summary]
    /\ edit_calls' = [edit_calls EXCEPT ![p] = @ \o h.calls]
    /\ Advance(p, h.step)

\* the reply `resp` of the token endpoint reaches get_client_credentials_token,
\* which search_track called without an http_client: the token is built from
\* the reply inside `async with httpx.AsyncClient(...)`, whose exit is awaited
\* before get_access_token goes on
TokenReplyWith(p, resp) ==
    /\ pc[p] = "await_token"
    /\ LET r == request_token_result(resp, now) IN
       IF r.ok
       THEN /\ fetched' = [fetched EXCEPT ![p] = Some(r.token)]
            /\ Advance(p, CloseToken)
            /\ UNCHANGED <<token_cache, summary, edit_calls, errors>>
       ELSE /\ errors' = [errors EXCEPT
                             ![p] = Append(@, [op |-> "token", net |-> resp.net,
                                               error |-> r.error])]
            /\ AfterSearch(p, r)
            /\ token_cache' = get_access_token_end(token_cache, r).cache
            /\ UNCHANGED fetched
    /\ UNCHANGED <<config, now, post, message, query, last_edit, after_edit, delivered>>

\* the HTTP client of the token request is closed: get_access_token stores the
\* token and returns it to search_track, which issues its search
TokenClientClosed(p) ==
    /\ pc[p] = "close_token"
    /\ LET r == [ok |-> TRUE, token |-> fetched[p][1]] IN
       /\ token_cache' = get_access_token_end(token_cache, r).cache
       /\ Advance(p, search_track_request(r.token, query[p]))
    /\ fetched' = [fetched EXCEPT ![p] = None]
    /\ UNCHANGED <<config, now, post, message, query, summary, edit_calls, errors, last_edit,
                   after_edit, delivered>>

\* the token endpoint's reply reaches get_client_credentials_token
TokenReply(p) == \E resp \in TokenReplies : TokenReplyWith(p, resp)

\* the reply `resp` of the search endpoint reaches search_track
SearchReplyWith(p, resp) ==
    /\ pc[p] = "await_search"
    /\ LET r == perform_search_result(resp) IN
       /\ errors' = [errors EXCEPT
                        ![p] = IF r.ok THEN @
                               ELSE Append(@, [op |-> "search", net |-> resp.net,
                                               error |-> r.error])]
       /\ AfterSearch(p, r)
    /\ UNCHANGED <<config, token_cache, fetched, now, post, message, query, last_edit, after_edit,
                   delivered>>

\* the search endpoint's reply reaches search_track
SearchReply(p) == \E resp \in SearchReplies : SearchReplyWith(p, resp)

\* Telegram's reply reaches edit_message_caption
EditReply(p) ==
    /\ pc[p] = "await_edit"
    /\ \E resp \in EditReplies :
          LET e == edit_message_caption_error(resp)
              sent == edit_requests[p][Len(edit_requests[p])] IN
          /\ errors' = [errors EXCEPT
                           ![p] = IF e = "" THEN @
                                  ELSE Append(@, [op |-> "edit", net |-> resp.net,
                                                  error |-> e])]
          /\ \E applied \in EditApplied(resp) :
                IF applied
                THEN /\ post' = [post EXCEPT !.caption = sent.caption]
                     /\ last_edit' =
                            Some([caption |-> sent.caption,
                                  link |-> Strip(build_spotify_link(summary[p][1]))])
                ELSE UNCHANGED <<post, last_edit>>
          /\ Advance(p, handle_after_edit(e, sent))
    /\ UNCHANGED <<config, token_cache, fetched, now, message, query, summary, edit_calls, after_edit,
                   delivered>>

\* time passes
Tick ==
    /\ now < MaxTime
    /\ now' = now + 1
    /\ UNCHANGED <<config, token_cache, fetched, post, pc, message, query, summary, token_requests,
                   search_requests, edit_calls, edit_requests, errors, status, escaped,
                   last_edit, after_edit, delivered>>

Next ==
    \/ \E p \in Requests : Receive(p)
    \/ \E p \in Requests : TokenReply(p)
    \/ \E p \in Requests : TokenClientClosed(p)
    \/ \E p \in Requests : SearchReply(p)
    \/ \E p \in Requests : EditReply(p)
    \/ Tick

Spec == Init /\ [][Next]_vars

\* --------------------------------------------- the caption patcher on its own
PatchChars == {"a", " ", "\n", "\r", "u", "headphone"}
PatchCaptions == {Null} \cup StringsUpTo(PatchChars, MaxPatchLen)
PatchSummaries ==
    [id : {<<>>, <<"7">>}, name : {<<"n">>}, artists : {<<>>},
     external_url : {<<>>, <<"u">>, <<" ", "u">>, <<" ">>}]

InitCaption ==
    /\ Started({FALSE}, {None}, {OtherMessage})
    /\ fn_arg \in [caption : PatchCaptions, summary : PatchSummaries]
    /\ fn_out = <<>>

\* build_caption_with_spotify_link(caption, summary)
PatchCaption ==
    /\ fn_out = <<>>
    /\ fn_out' = <<build_caption_with_spotify_link(fn_arg.caption, fn_arg.summary)>>
    /\ UNCHANGED <<handler, fn_arg>>

\* build_caption_with_spotify_link on the caption it returned
PatchCaptionAgain ==
    /\ Len(fn_out) = 1
    /\ fn_out[1] # Null
    /\ fn_out' = Append(fn_out, build_caption_with_spotify_link(fn_out[1], fn_arg.summary))
    /\ UNCHANGED <<handler, fn_arg>>

NextCaption == PatchCaption \/ PatchCaptionAgain

SpecCaption == InitCaption /\ [][NextCaption]_vars

\* ---------------------------------------------- the link builder on its own
LinkIds == StringsUpTo({"7", " "}, MaxCaptionLen)
LinkUrls == StringsUpTo({"u", " "}, MaxCaptionLen)
LinkSummaries == [id : LinkIds, name : {<<"n">>}, artists : {<<>>}, external_url : LinkUrls]

InitLink ==
    /\ Started({FALSE}, {None}, {OtherMessage})
    /\ fn_arg \in [caption : {Null, <<"a">>, <<"u">>}, summary : LinkSummaries]
    /\ fn_out = <<>>

\* build_spotify_link(summary)
BuildLink ==
    /\ fn_out = <<>>
    /\ fn_out' = <<build_spotify_link(fn_arg.summary)>>
    /\ UNCHANGED <<handler, fn_arg>>

\* build_caption_with_spotify_link(caption, summary), which derives the link
\* it appends from build_spotify_link(summary)
PatchWithLink ==
    /\ Len(fn_out) = 1
    /\ fn_out' = Append(fn_out, build_caption_with_spotify_link(fn_arg.caption, fn_arg.summary))
    /\ UNCHANGED <<handler, fn_arg>>

NextLink == BuildLink \/ PatchWithLink

SpecLink == InitLink /\ [][NextLink]_vars

\* --------------------------------------------- the text extractor on its own
TextCaptions == {Null} \cup StringsUpTo(CaptionChars, MaxCaptionLen)
MessageTexts == {Null, <<>>, <<"t">>, <<" ">>}
AudioFields == {Null, <<>>, <<" ">>, <<"p">>, <<" ", "p", " ">>}
FileNames ==
    {Null, <<>>, <<"a", "_", "b", ".", "m">>, <<"_", ".", "m">>, <<".", "m">>, <<"_">>,
     <<"d", "/", "_", "b", "_", ".", "m">>, <<" ", "_">>, <<".">>, <<"b", ".">>,
     <<"a", ".", "b", ".", "m">>}
TextAudios ==
    {None} \cup {Some(a) : a \in [performer : AudioFields, title : AudioFields,
                                   file_name : FileNames]}
\* messages that vary in caption and text, and messages that vary in audio
TextMessages ==
    [message_id : {77}, caption : TextCaptions, text : MessageTexts, audio : Audios,
     chat : {None}]
    \cup [message_id : {77}, caption : {Null, <<>>}, text : {Null, <<>>}, audio : TextAudios,
          chat : {None}]

InitText ==
    /\ Started({FALSE}, {None}, {OtherMessage})
    /\ fn_arg \in [shape : Shapes, message : TextMessages]
    /\ fn_out = <<>>

\* extract_relevant_message(payload)
ExtractMessage ==
    /\ fn_out = <<>>
    /\ fn_out' = <<extract_relevant_message(Update(fn_arg.shape, fn_arg.message))>>
    /\ UNCHANGED <<handler, fn_arg>>

\* get_message_text(message) on the message extracted
GetMessageText ==
    /\ Len(fn_out) = 1
    /\ fn_out[1] # None
    /\ fn_out' = Append(fn_out, get_message_text(fn_out[1][1]))
    /\ UNCHANGED <<handler, fn_arg>>

NextText == ExtractMessage \/ GetMessageText

SpecText == InitText /\ [][NextText]_vars

\* ------------------------------------------- the search response on its own
TrackItem(id, name, artists, urls) ==
    JMap([id |-> id, name |-> name, artists |-> artists, external_urls |-> urls])
ItemIds == {JAbsent, JNull, JStr(<<>>), JStr(<<"7">>), JNum(7)}
ItemNames == {JAbsent, JNull, JStr(<<>>), JStr(<<"n">>)}
ItemArtists ==
    {JAbsent, JStr(<<"x">>),
     JSeq(<<JNull, JMap([name |-> JStr(<<"x">>)]), JMap([name |-> JNum(1)])>>)}
ItemUrls == {JAbsent, JNull, SpotifyUrl(<<"u">>), JMap([spotify |-> JNull])}
TrackItems ==
    {TrackItem(id, name, artists, urls) :
        id \in ItemIds, name \in ItemNames, artists \in ItemArtists, urls \in ItemUrls}
ErrorBody(e) == JMap([error |-> e])
ErrorValues ==
    {JAbsent, JNull, JStr(<<>>), JStr(<<"b">>), JNum(0), JSeq(<<>>),
     JMap([message |-> JAbsent]), JMap([message |-> JNull]), JMap([message |-> JStr(<<"m">>)]),
     JMap([message |-> JStr(<<>>)]), JMap([message |-> JNum(5)])}
SearchShapes ==
    {NetTimeout, NetConnect, Reply(500, NotJson), Reply(200, NotJson), Reply(200, JNull),
     Reply(200, JSeq(<<>>)), Reply(200, JMap([tracks |-> JAbsent])),
     Reply(200, JMap([tracks |-> JSeq(<<>>)])), Reply(200, SearchBody(JAbsent)),
     Reply(200, SearchBody(JStr(<<"i">>))), Reply(200, SearchBody(JSeq(<<>>))),
     Reply(200, SearchBody(JSeq(<<JNull, JNum(1)>>)))}
    \cup {Reply(429, ErrorBody(e)) : e \in ErrorValues}
    \cup {Reply(500, EmptyBody), Reply(500, JNull), Reply(500, JSeq(<<JStr(<<"x">>)>>)),
          Reply(200, EmptyBody)}
    \cup {Reply(200, SearchBody(JSeq(<<i>>))) : i \in TrackItems}
    \cup {Reply(200, SearchBody(JSeq(<<JStr(<<"s">>), i, TrackItem(JStr(<<"8">>),
                                     JStr(<<"m">>), JAbsent, JAbsent)>>))) : i \in TrackItems}

InitSearch ==
    /\ Started({TRUE}, {None}, {OtherMessage})
    /\ fn_arg \in SearchShapes
    /\ fn_out = <<>>

\* search_track._perform_search on the reply of the search endpoint
PerformSearch ==
    /\ fn_out = <<>>
    /\ fn_out' = <<perform_search_result(fn_arg)>>
    /\ UNCHANGED <<handler, fn_arg>>

NextSearch == PerformSearch

SpecSearch == InitSearch /\ [][NextSearch]_vars

\* -------------------------------------------------------- startup on its own
SettingValues == {Null, <<>>, <<"x">>}
Settings ==
    [telegram_bot_token : SettingValues, telegram_channel_id : SettingValues,
     spotify_client_id : SettingValues, spotify_client_secret : SettingValues]

InitStartup ==
    /\ Started({FALSE}, {None}, {OtherMessage})
    /\ fn_arg \in Settings
    /\ fn_out = <<>>

\* the application starts with the settings of its environment
Startup ==
    /\ fn_out = <<>>
    /\ fn_out' = <<lifespan(fn_arg)>>
    /\ UNCHANGED <<handler, fn_arg>>

\* the application shuts down
Shutdown ==
    /\ Len(fn_out) = 1
    /\ fn_out[1].raised = ""
    /\ fn_out' = Append(fn_out, lifespan_shutdown(fn_out[1]))
    /\ UNCHANGED <<handler, fn_arg>>

NextStartup == Startup \/ Shutdown

SpecStartup == InitStartup /\ [][NextStartup]_vars

\* ---------------------------------------------------- text parser on its own
ParserChars == {"a", " ", "\n", "-", "endash"}
ParserExamples ==
    {<<"A", " ", "-", " ", "B", " ", "-", " ", "C">>,
     <<"A", "r", "t", "i", "s", "t", " ", "-", " ">>,
     <<"N", "o", "S", "e", "p", "a", "r", "a", "t", "o", "r">>,
     <<" ", "a", " ", "\n", "a", " ", "emdash", "\n", "a", "-", "a", " ">>}
ParserInputs == {Null} \cup StringsUpTo(ParserChars, MaxQueryLen) \cup ParserExamples

InitParser ==
    /\ Started({FALSE}, {None}, {OtherMessage})
    /\ fn_arg \in ParserInputs
    /\ fn_out = <<>>

ExtractTrackQuery ==
    /\ fn_out = <<>>
    /\ fn_out' = <<[fn |-> "extract_track_query", value |-> extract_track_query(fn_arg)]>>
    /\ UNCHANGED <<handler, fn_arg>>

\* the function applied to its own result
ExtractTrackQueryAgain ==
    /\ Len(fn_out) = 1
    /\ fn_out[1].fn = "extract_track_query"
    /\ fn_out' = Append(fn_out, [fn |-> "extract_track_query",
                                 value |-> extract_track_query(fn_out[1].value)])
    /\ UNCHANGED <<handler, fn_arg>>

SplitArtistTitle ==
    /\ fn_out = <<>>
    /\ fn_out' = <<[fn |-> "split_artist_title", value |-> split_artist_title(fn_arg)]>>
    /\ UNCHANGED <<handler, fn_arg>>

BuildTrackCandidate ==
    /\ fn_out = <<>>
    /\ fn_out' = <<[fn |-> "build_track_candidate", value |-> build_track_candidate(fn_arg)]>>
    /\ UNCHANGED <<handler, fn_arg>>

NextParser ==
    \/ ExtractTrackQuery
    \/ ExtractTrackQueryAgain
    \/ SplitArtistTitle
    \/ BuildTrackCandidate

SpecParser == InitParser /\ [][NextParser]_vars

\* ------------------------------------------ edit_message_caption on its own
EditCaptions == StringsUpTo({"a", " ", "\n"}, MaxCaptionLen)
EditClients == {[channel_id |-> <<>>], [channel_id |-> <<"c">>]}
EditChatIds == {Null, <<>>, <<"d">>}
EditShapes ==
    EditReplies \cup
    {Reply(200, JMap([ok |-> JAbsent])), Reply(200, JMap([ok |-> JNull])), Reply(200, JNull),
     Reply(500, JMap([ok |-> JBool(TRUE)]))}

InitEdit ==
    /\ Started({FALSE}, {None}, {OtherMessage})
    /\ fn_arg \in [client : EditClients, caption : EditCaptions, chat_id : EditChatIds]
    /\ fn_out = <<>>

\* edit_message_caption is called and raises ValueError or posts its request
CallEditMessageCaption ==
    /\ fn_out = <<>>
    /\ LET r == edit_message_caption_request(fn_arg.client, 7, fn_arg.caption, fn_arg.chat_id) IN
       fn_out' = <<[error |-> IF r.ok THEN "" ELSE r.error,
                    requests |-> IF r.ok THEN <<r.payload>> ELSE <<>>]>>
    /\ UNCHANGED <<handler, fn_arg>>

\* the reply to the posted request ends the call
EditCallReply ==
    /\ Len(fn_out) = 1
    /\ fn_out[1].requests # <<>>
    /\ \E resp \in EditShapes :
          LET e == edit_message_caption_error(resp) IN
          fn_out' = Append(fn_out, [resp |-> resp, error |-> e,
                                    returned |-> IF e = "" THEN Some(resp.body) ELSE None])
    /\ UNCHANGED <<handler, fn_arg>>

NextEdit == CallEditMessageCaption \/ EditCallReply

SpecEdit == InitEdit /\ [][NextEdit]_vars

BufferChoices == {DefaultBufferSeconds - 1, DefaultBufferSeconds}

InitToken ==
    /\ Started({TRUE}, {None}, {OtherMessage})
    /\ fn_arg = [force_refresh |-> FALSE, buffer_seconds |-> DefaultBufferSeconds,
                 cache |-> None, clock |-> 0]
    /\ fn_out = <<>>

\* a caller invokes get_access_token(force_refresh, buffer_seconds); fn_arg
\* keeps the arguments, the cache and the clock of the call
CallGetAccessToken(p) ==
    /\ p \in slots
    /\ pc[p] \in {"idle", "done"}
    /\ delivered < MaxRequests
    /\ delivered' = delivered + 1
    /\ \E force_refresh \in BOOLEAN, buffer_seconds \in BufferChoices :
          LET b == get_access_token_begin(token_cache, force_refresh, buffer_seconds, now) IN
          /\ fn_arg' = [force_refresh |-> force_refresh, buffer_seconds |-> buffer_seconds,
                        cache |-> token_cache, clock |-> now]
          /\ fn_out' = IF b.request THEN <<>>
                       ELSE <<[ok |-> TRUE, token |-> b.token, cached |-> TRUE]>>
          /\ pc' = [pc EXCEPT ![p] = IF b.request THEN "await_token" ELSE "done"]
          /\ token_requests' = [token_requests EXCEPT ![p] = IF b.request THEN 1 ELSE 0]
    /\ UNCHANGED <<spotify_client, telegram_client, slots, token_cache, fetched, now, post, message, query, summary,
                   search_requests, edit_calls, edit_requests, errors, status, escaped,
                   last_edit, after_edit>>

\* the token endpoint's reply reaches the get_access_token call
TokenCallReply(p) ==
    /\ pc[p] = "await_token"
    /\ \E resp \in TokenReplies :
          LET e == get_access_token_end(token_cache, request_token_result(resp, now)) IN
          /\ token_cache' = e.cache
          /\ fn_out' = <<[ok |-> e.result.ok,
                          token |-> IF e.result.ok THEN e.result.token ELSE Null,
                          error |-> IF e.result.ok THEN "" ELSE e.result.error,
                          cached |-> FALSE, resp |-> resp, clock |-> now]>>
    /\ pc' = [pc EXCEPT ![p] = "done"]
    /\ UNCHANGED <<spotify_client, telegram_client, slots, fn_arg, fetched, now, post, message, query,
                   summary, token_requests, search_requests, edit_calls, edit_requests,
                   errors, status, escaped, last_edit, after_edit, delivered>>

NextToken ==
    \/ \E p \in Requests : CallGetAccessToken(p)
    \/ \E p \in Requests : TokenCallReply(p)
    \/ Tick

SpecToken == InitToken /\ [][NextToken]_vars

\* ------------------------------------------- requests handled concurrently
\* the token endpoint issues a different access token on every request it
\* answers; the one it gives request p ends in p's digit
IssuedTo(p) == <<"k", DigitChar(p)>>
RaceTokenBody(p, expires_in) ==
    JMap([access_token |-> JStr(IssuedTo(p)), token_type |-> JAbsent,
          expires_in |-> expires_in])
RaceTokenReplies(p) ==
    {Reply(401, NotJson), Reply(200, RaceTokenBody(p, JNum(DefaultBufferSeconds))),
     Reply(200, RaceTokenBody(p, JAbsent))}

\* every handler slot takes requests; no Telegram client is configured
InitRace ==
    /\ spotify_client = TRUE
    /\ telegram_client = None
    /\ token_cache = None
    /\ fetched = [p \in Requests |-> None]
    /\ now = 0
    /\ post = OtherMessage
    /\ pc = [p \in Requests |-> "idle"]
    /\ message = [p \in Requests |-> None]
    /\ query = [p \in Requests |-> Null]
    /\ summary = [p \in Requests |-> None]
    /\ token_requests = [p \in Requests |-> 0]
    /\ search_requests = [p \in Requests |-> <<>>]
    /\ edit_calls = [p \in Requests |-> <<>>]
    /\ edit_requests = [p \in Requests |-> <<>>]
    /\ errors = [p \in Requests |-> <<>>]
    /\ status = [p \in Requests |-> 0]
    /\ escaped = [p \in Requests |-> ""]
    /\ last_edit = None
    /\ after_edit = [p \in Requests |-> None]
    /\ slots = Requests
    /\ delivered = 0
    /\ fn_arg = <<>>
    /\ fn_out = <<>>

TokenReplyRace(p) == \E resp \in RaceTokenReplies(p) : TokenReplyWith(p, resp)

\* the search either times out or finds nothing
SearchReplyRace(p) ==
    \E resp \in {NetTimeout, Reply(200, SearchBody(JSeq(<<>>)))} : SearchReplyWith(p, resp)

NextRace ==
    \/ \E p \in Requests : Receive(p)
    \/ \E p \in Requests : TokenReplyRace(p)
    \/ \E p \in Requests : TokenClientClosed(p)
    \/ \E p \in Requests : SearchReplyRace(p)
    \/ Tick

SpecRace == InitRace /\ [][NextRace]_vars

\* ------------------------------------------------------------------ claims
Handled(p) == pc[p] \in {"await_token", "close_token", "await_search", "await_edit", "done"}

\* the link line the patcher derives from a summary (<<>>: no link)
LinkOf(s) == Strip(build_spotify_link(s))

IsBlank(s) == \A i \in 1..Len(s) : s[i] \in Whitespace

\* the maximal runs of non-whitespace characters of s, in order
RECURSIVE Words(_)
Words(s) ==
    LET t == LStrip(s) IN
    IF t = <<>> THEN <<>>
    ELSE LET n == IF \E i \in 1..Len(t) : t[i] \in Whitespace
                  THEN (CHOOSE i \in 1..Len(t) :
                            t[i] \in Whitespace /\ \A j \in 1..(i - 1) : t[j] \notin Whitespace) - 1
                  ELSE Len(t) IN
         <<SubSeq(t, 1, n)>> \o Words(SubSeq(t, n + 1, Len(t)))

RECURSIVE JoinWords(_)
JoinWords(ws) ==
    IF ws = <<>> THEN <<>>
    ELSE IF Len(ws) = 1 THEN ws[1]
    ELSE ws[1] \o <<" ">> \o JoinWords(Tail(ws))

\* the error kind a non-200 reply gives each outbound call
Non200Error(op) ==
    CASE op = "token" -> request_token_result(Reply(500, NotJson), 0).error
      [] op = "search" -> perform_search_result(Reply(500, NotJson)).error
      [] op = "edit" -> edit_message_caption_error(Reply(500, NotJson))

\* C1: every handled update is answered 204 with no exception leaving the
\* handler, whatever the outbound calls did.
C1_Always204 ==
    \A p \in Requests : pc[p] = "done" => status[p] = HTTP_204_NO_CONTENT /\ escaped[p] = ""

\* the number of places of s where sub occurs
Occurrences(s, sub) ==
    Cardinality({i \in 0..(Len(s) - Len(sub)) : SubSeq(s, i + 1, i + Len(sub)) = sub})

\* C2: patching a patched caption again with the same summary returns it
\* unchanged, with the link occurring as often as before.
C2_PatchIdempotent ==
    Len(fn_out) = 2 =>
        /\ fn_out[2] = fn_out[1]
        /\ Occurrences(fn_out[2], LinkOf(fn_arg.summary))
               = Occurrences(fn_out[1], LinkOf(fn_arg.summary))
        /\ Occurrences(fn_out[2], LinkOf(fn_arg.summary)) >= 1

C2_Witness ==
    /\ Len(fn_out) = 2
    /\ fn_arg.caption = <<" ", "\n">>
    /\ fn_out[1] # fn_arg.caption

\* C3: with both clients configured, an update whose caption lacks the link
\* and whose search returns a match with an external URL makes exactly one
\* edit call, with the link line in its caption; an update delivered after
\* that edit was applied, with the same match, makes no edit call.
C3_EditOnceThenNever ==
    \A p \in Requests :
        (Handled(p) /\ pc[p] # "await_token" /\ pc[p] # "await_search" /\ summary[p] # None) =>
            LET s == summary[p][1]
                caption == StrOr(message[p][1].caption, <<>>) IN
            /\ (/\ telegram_client # None
                /\ LinkOf(s) # <<>>
                /\ s.external_url # <<>>
                /\ ~IsBlank(caption)
                /\ ~Contains(caption, LinkOf(s)))
               => /\ Len(edit_calls[p]) = 1
                  /\ Contains(edit_calls[p][1].caption, SPOTIFY_LINK_PREFIX \o LinkOf(s))
            /\ (after_edit[p] # None /\ after_edit[p][1].link = LinkOf(s))
               => edit_calls[p] = <<>>

C3_Witness ==
    \E p \in Requests :
        /\ pc[p] = "done"
        /\ summary[p] # None
        /\ telegram_client # None
        /\ after_edit[p] # None
        /\ after_edit[p][1].link = LinkOf(summary[p][1])
        /\ edit_calls[p] = <<>>

\* C4: no token or search request is made for a null or blank text, and the
\* query of every search request is the text's words joined by single spaces.
C4_QueryNormalized ==
    \A p \in Requests :
        Handled(p) =>
            LET raw == IF message[p] = None THEN Null ELSE get_message_text(message[p][1]) IN
            /\ (raw = Null \/ IsBlank(raw)) =>
                   /\ token_requests[p] = 0
                   /\ search_requests[p] = <<>>
                   /\ edit_calls[p] = <<>>
            /\ (token_requests[p] > 0 \/ search_requests[p] # <<>>) =>
                   /\ raw # Null
                   /\ query[p] # Null
                   /\ ~IsBlank(query[p])
                   /\ query[p] = JoinWords(Words(raw))
            /\ \A i \in DOMAIN search_requests[p] : search_requests[p][i].query = query[p]

C4_Witness ==
    \E p \in Requests :
        /\ search_requests[p] # <<>>
        /\ search_requests[p][1].query # get_message_text(message[p][1])

\* C5: an edit call is made only with a Telegram client configured, a Spotify
\* client configured, and a summary returned by this request's own search.
C5_EditOnlyAfterSummary ==
    \A p \in Requests :
        /\ (edit_calls[p] # <<>> \/ edit_requests[p] # <<>>) =>
               /\ telegram_client # None
               /\ spotify_client
               /\ summary[p] # None
               /\ Len(search_requests[p]) = 1
               /\ pc[p] \in {"await_edit", "done"}
        /\ pc[p] \in {"idle", "await_token", "close_token", "await_search"} =>
               edit_calls[p] = <<>> /\ edit_requests[p] = <<>>

C5_Witness ==
    \E p \in Requests : edit_calls[p] # <<>> /\ edit_requests[p] # <<>>

\* C6: the caption update makes an edit call exactly when a link is derivable
\* and the caption lacks it, and then one call with the message's id, the
\* chat's id as a string and the patched caption.
C6_EditIffLinkMissing ==
    \A p \in Requests :
        (pc[p] \in {"await_edit", "done"} /\ summary[p] # None /\ telegram_client # None) =>
            LET s == summary[p][1]
                m == message[p][1] IN
            /\ edit_calls[p] # <<>> <=>
                   (LinkOf(s) # <<>> /\ ~Contains(StrOr(m.caption, <<>>), LinkOf(s)))
            /\ edit_calls[p] # <<>> =>
                   /\ Len(edit_calls[p]) = 1
                   /\ edit_calls[p][1].message_id = m.message_id
                   /\ m.chat # None
                   /\ edit_calls[p][1].chat_id = IntToStr(m.chat[1].id)
                   /\ edit_calls[p][1].caption = build_caption_with_spotify_link(m.caption, s)

\* C7: an exception of the token fetch or of the search is swallowed: the
\* lookup gives no summary, no edit is made and the request is answered 204.
C7_SearchErrorSwallowed ==
    \A p \in Requests :
        (\E i \in DOMAIN errors[p] : errors[p][i].op \in {"token", "search"}) =>
            /\ summary[p] = None
            /\ edit_calls[p] = <<>>
            /\ edit_requests[p] = <<>>
            /\ pc[p] = "done"
            /\ status[p] = HTTP_204_NO_CONTENT
            /\ escaped[p] = ""

C7_Witness ==
    \E p \in Requests :
        /\ pc[p] = "done"
        /\ \E i \in DOMAIN errors[p] :
              errors[p][i].op = "token" /\ errors[p][i].error = "KeyError"

\* C8: a timeout or network failure of an outbound call raises the error kind
\* a non-200 reply of that call raises, and is swallowed like it.
C8_NetworkErrorKind ==
    \A p \in Requests :
        \A i \in DOMAIN errors[p] :
            errors[p][i].net # "ok" =>
                /\ errors[p][i].error = Non200Error(errors[p][i].op)
                /\ pc[p] = "done" => status[p] = HTTP_204_NO_CONTENT /\ escaped[p] = ""

\* C9: with no source message or no chat on it, no editMessageCaption request
\* is issued and no exception leaves the caption update.
C9_NoChatNoEdit ==
    \A p \in Requests :
        (Handled(p) /\ (message[p] = None \/ message[p][1].chat = None)) =>
            /\ edit_requests[p] = <<>>
            /\ escaped[p] = ""

\* C10: a request issues at most one token request, one search request and
\* one caption edit; an edit that failed with TelegramAPIError is not repeated.
C10_NoRetry ==
    \A p \in Requests :
        /\ token_requests[p] <= 1
        /\ Len(search_requests[p]) <= 1
        /\ Len(edit_calls[p]) <= 1
        /\ Len(edit_requests[p]) <= 1
        /\ (\E i \in DOMAIN errors[p] : errors[p][i].error = "TelegramAPIError") =>
               Len(edit_requests[p]) = 1 /\ pc[p] = "done"

C10_Witness ==
    \E p \in Requests :
        /\ pc[p] = "done"
        /\ token_requests[p] = 1
        /\ Len(search_requests[p]) = 1
        /\ Len(edit_requests[p]) = 1
        /\ \E i \in DOMAIN errors[p] : errors[p][i].error = "TelegramAPIError"

\* C11: an update that carries neither a message nor a channel post is answered
\* 204 at once, and its handler issues no token request, no search and no edit.
C11_NoMessageNoCalls ==
    \A p \in Requests :
        Handled(p) /\ message[p] = None =>
            /\ pc[p] = "done"
            /\ status[p] = HTTP_204_NO_CONTENT
            /\ escaped[p] = ""
            /\ token_requests[p] = 0
            /\ search_requests[p] = <<>>
            /\ edit_calls[p] = <<>>
            /\ edit_requests[p] = <<>>

\* an update without a message was answered while a Spotify client is configured
C11_Witness ==
    \E p \in Requests :
        /\ pc[p] = "done"
        /\ message[p] = None
        /\ spotify_client
        /\ status[p] = HTTP_204_NO_CONTENT

\* whether the call recorded in fn_arg found a cached token, was not forced,
\* and was made strictly before acquired_at + expires_in - buffer_seconds
CallFoundFreshToken ==
    /\ fn_arg.cache # None
    /\ ~fn_arg.force_refresh
    /\ fn_arg.clock <
           (fn_arg.cache[1].acquired_at + fn_arg.cache[1].expires_in) - fn_arg.buffer_seconds

\* C12: get_access_token returns the cached token with no token request
\* exactly when a token is cached, force_refresh is false and the clock is
\* strictly before acquired_at + expires_in - buffer_seconds; in every other
\* case it issues exactly one token request, and the token it then returns is
\* the one built from the reply, which the cache holds.
C12_CachedIffFresh ==
    \A p \in slots :
        /\ pc[p] = "await_token" => ~CallFoundFreshToken /\ token_requests[p] = 1
        /\ pc[p] = "done" /\ fn_out # <<>> =>
              /\ fn_out[1].cached <=> CallFoundFreshToken
              /\ fn_out[1].cached <=> token_requests[p] = 0
              /\ fn_out[1].cached =>
                    /\ fn_out[1].token = fn_arg.cache[1]
                    /\ token_cache = fn_arg.cache
              /\ ~fn_out[1].cached => token_requests[p] = 1
              /\ ~fn_out[1].cached /\ fn_out[1].ok =>
                    /\ token_cache = Some(fn_out[1].token)
                    /\ fn_out[1].token.access_token = fn_out[1].resp.body.v.access_token.v
                    /\ fn_out[1].token.acquired_at = fn_out[1].clock

\* a call made exactly at the threshold of the cached token fetched a new one
C12_Witness ==
    \E p \in slots :
        /\ pc[p] = "done"
        /\ fn_out # <<>>
        /\ fn_arg.cache # None
        /\ ~fn_arg.force_refresh
        /\ fn_arg.clock =
               (fn_arg.cache[1].acquired_at + fn_arg.cache[1].expires_in)
                   - fn_arg.buffer_seconds
        /\ ~fn_out[1].cached
        /\ fn_out[1].ok
        /\ token_requests[p] = 1

\* the token endpoint answered with a non-200 status, or with a 200 whose body
\* is not JSON, not a JSON object, or an object without access_token
BadTokenReply(resp) ==
    /\ resp.net = "ok"
    /\ \/ resp.status # HTTP_OK
       \/ resp.body.t # "map"
       \/ resp.body.v.access_token.t = "absent"

\* C13: whenever the token endpoint answers with a non-200 status (whatever
\* its body) or with a malformed 200 body, get_access_token fails with
\* SpotifyAuthenticationError and with no other kind of error.
C13_TokenFailureKind ==
    \A p \in slots :
        pc[p] = "done" /\ fn_out # <<>> /\ ~fn_out[1].cached /\ BadTokenReply(fn_out[1].resp) =>
            ~fn_out[1].ok /\ fn_out[1].error = "SpotifyAuthenticationError"

\* request p made a token request of its own and got a token from it
Fetched(p) ==
    /\ token_requests[p] = 1
    /\ pc[p] \in {"await_search", "done"}
    /\ \A i \in 1..Len(errors[p]) : errors[p][i].op # "token"

\* the requests in the slots are the only ones handled so far, and all are finished
RaceOver ==
    /\ delivered = Cardinality({p \in Requests : pc[p] # "idle"})
    /\ \A p \in Requests : pc[p] \in {"idle", "done"}

\* C14: requests that find the cache absent or expired at the same time each
\* make their own token request; each one that gets a token searches with the
\* token issued to it, and once all are finished the cache holds, whole, one
\* of the tokens they fetched.
C14_RacingRefresh ==
    /\ \A p \in Requests :
          Fetched(p) =>
              /\ Len(search_requests[p]) = 1
              /\ search_requests[p][1].token.access_token = IssuedTo(p)
    /\ RaceOver /\ (\E p \in Requests : Fetched(p)) =>
          /\ token_cache # None
          /\ \E p \in Requests : Fetched(p) /\ token_cache[1] = search_requests[p][1].token

\* two requests each fetched a long-lived token, which only requests in flight
\* at the same time do, and both are finished
C14_Witness ==
    /\ RaceOver
    /\ \E p, q \in Requests :
          /\ p # q
          /\ Fetched(p) /\ Fetched(q)
          /\ search_requests[p][1].token.expires_in = DefaultExpiresIn
          /\ search_requests[q][1].token.expires_in = DefaultExpiresIn
          /\ token_cache = Some(search_requests[q][1].token)

\* the text the audio metadata of a message gives by the rule of performer,
\* title and file name (Null: none)
AudioDerived(m) ==
    IF m.audio = None THEN Null
    ELSE LET a == m.audio[1]
             performer == IF a.performer = Null THEN <<>> ELSE Strip(a.performer)
             title == IF a.title = Null THEN <<>> ELSE Strip(a.title)
             stem == IF a.file_name = Null THEN <<>>
                     ELSE Strip(ReplaceUnderscore(PathStem(a.file_name))) IN
         IF performer # <<>> /\ title # <<>> THEN performer \o <<" ", "-", " ">> \o title
         ELSE IF performer # <<>> THEN performer
         ELSE IF title # <<>> THEN title
         ELSE IF stem # <<>> THEN stem
         ELSE Null

\* C15: get_message_text returns the caption when it is non-empty after
\* trimming, otherwise the text when it is non-empty, otherwise the text
\* derived from the audio metadata, otherwise null; a whitespace-only caption
\* never wins over a usable text or audio.
C15_TextPriority ==
    Len(fn_out) = 2 =>
        LET m == fn_out[1][1] IN
        fn_out[2] =
            IF m.caption # Null /\ Strip(m.caption) # <<>> THEN m.caption
            ELSE IF m.text # Null /\ m.text # <<>> THEN m.text
            ELSE AudioDerived(m)

\* C16: with no caption and no text the derived text is "performer - title"
\* when both are non-empty after trimming, the non-empty one when one is, the
\* trimmed file-name stem with underscores as spaces when both are empty, and
\* null when nothing usable remains; it is never empty nor whitespace-only.
C16_AudioDerivation ==
    Len(fn_out) = 2 /\ ~Truthy(fn_out[1][1].caption) /\ ~Truthy(fn_out[1][1].text) =>
        /\ fn_out[2] = AudioDerived(fn_out[1][1])
        /\ fn_out[2] # Null => fn_out[2] # <<>> /\ ~IsBlank(fn_out[2])

\* the text of a message without caption and text came from a file name whose
\* stem holds an underscore
C16_Witness ==
    /\ Len(fn_out) = 2
    /\ ~Truthy(fn_out[1][1].caption) /\ ~Truthy(fn_out[1][1].text)
    /\ fn_out[1][1].audio # None
    /\ fn_out[1][1].audio[1].performer = <<" ">>
    /\ fn_out[1][1].audio[1].title = Null
    /\ fn_out[1][1].audio[1].file_name = <<"d", "/", "_", "b", "_", ".", "m">>
    /\ fn_out[2] = <<"b">>

\* C17: extract_relevant_message returns the channel post whenever the update
\* has one, even next to a direct message, the direct message only when there
\* is no channel post, and null when the update has neither.
C17_ChannelPostFirst ==
    Len(fn_out) >= 1 =>
        LET payload == Update(fn_arg.shape, fn_arg.message) IN
        /\ payload.channel_post # None => fn_out[1] = payload.channel_post
        /\ payload.channel_post = None /\ payload.message # None => fn_out[1] = payload.message
        /\ payload.channel_post = None /\ payload.message = None => fn_out[1] = None

\* an update with both a channel post and a different direct message gave the
\* channel post
C17_Witness ==
    /\ Len(fn_out) >= 1
    /\ fn_arg.shape = "both"
    /\ Update(fn_arg.shape, fn_arg.message).message # None
    /\ Update(fn_arg.shape, fn_arg.message).message
           # Update(fn_arg.shape, fn_arg.message).channel_post
    /\ fn_out[1] = Some(fn_arg.message)

\* the existing caption of the patch under test ("" when there is none)
Existing == IF fn_arg.caption = Null THEN <<>> ELSE fn_arg.caption

\* the patch under test appended a link line: a link is derivable and the
\* existing caption does not contain it
Appends ==
    /\ Len(fn_out) >= 1
    /\ LinkOf(fn_arg.summary) # <<>>
    /\ ~Contains(Existing, LinkOf(fn_arg.summary))

LinkLine == SPOTIFY_LINK_PREFIX \o LinkOf(fn_arg.summary)

EndsInLineBreak(s) == s # <<>> /\ s[Len(s)] \in {"\n", "\r"}

\* C18 as stated: an empty caption gives exactly P+L; a non-empty caption that
\* ends with a newline, whitespace-only captions included, gives
\* existing+P+L; any other caption gives the caption without its trailing
\* whitespace, one newline, then P+L.
C18_AppendLayout_AsStated ==
    Appends =>
        fn_out[1] =
            IF Existing = <<>> THEN LinkLine
            ELSE IF EndsInLineBreak(Existing) THEN Existing \o LinkLine
            ELSE RStrip(Existing) \o <<"\n">> \o LinkLine

\* C18 amended: a caption that is empty or whitespace-only gives exactly P+L;
\* a caption with visible text that ends with a newline gives existing+P+L;
\* any other caption gives the caption without its trailing whitespace, one
\* newline, then P+L.
C18_AppendLayout ==
    Appends =>
        fn_out[1] =
            IF IsBlank(Existing) THEN LinkLine
            ELSE IF EndsInLineBreak(Existing) THEN Existing \o LinkLine
            ELSE RStrip(Existing) \o <<"\n">> \o LinkLine

\* a caption with visible text, an inner blank and a final newline was patched
C18_Witness ==
    /\ Appends
    /\ fn_arg.caption = <<"a", " ", "\n">>
    /\ fn_out[1] = <<"a", " ", "\n">> \o LinkLine

\* what build_spotify_link is to return for the summary under test
PreferredLink ==
    IF fn_arg.summary.external_url # <<>> THEN fn_arg.summary.external_url
    ELSE IF fn_arg.summary.id # <<>> THEN TrackUrlBase \o fn_arg.summary.id
    ELSE <<>>

\* C19 as stated: build_spotify_link returns a non-empty external URL
\* verbatim, else the track URL of a non-empty id, else the empty string; so
\* every summary with a non-empty id has a derivable link.
C19_LinkPreference_AsStated ==
    /\ Len(fn_out) >= 1 => fn_out[1] = PreferredLink
    /\ Len(fn_out) = 2 /\ fn_arg.summary.id # <<>> => fn_out[2] # Null

\* C19 amended: build_spotify_link returns a non-empty external URL verbatim,
\* else the track URL of a non-empty id, else the empty string; so every
\* summary with a non-empty id whose external URL is empty or has a
\* non-whitespace character has a derivable link.
C19_LinkPreference ==
    /\ Len(fn_out) >= 1 => fn_out[1] = PreferredLink
    /\ Len(fn_out) = 2 /\ fn_arg.summary.id # <<>>
          /\ (fn_arg.summary.external_url = <<>> \/ ~IsBlank(fn_arg.summary.external_url))
       => fn_out[2] # Null

\* a summary without external URL got the track URL of its id, and the caption
\* was patched with it
C19_Witness ==
    /\ Len(fn_out) = 2
    /\ fn_arg.summary.external_url = <<>>
    /\ fn_arg.summary.id = <<"7">>
    /\ fn_out[1] = TrackUrlBase \o <<"7">>
    /\ fn_arg.caption = <<"a">>
    /\ fn_out[2] = <<"a", "\n">> \o SPOTIFY_LINK_PREFIX \o TrackUrlBase \o <<"7">>

\* C20: every summary search_track returns has a non-empty id or a non-empty
\* name, whatever the shape of the search response.
C20_SummaryIdentified ==
    Len(fn_out) = 1 /\ fn_out[1].ok /\ fn_out[1].summary # None =>
        fn_out[1].summary[1].id # <<>> \/ fn_out[1].summary[1].name # <<>>

\* the search response under test is a 200 whose body is a JSON object
ObjectReply == fn_arg.net = "ok" /\ fn_arg.status = HTTP_OK /\ fn_arg.body.t = "map"

\* the first element of a JSON array that is an object (JNull: none)
FirstObject(items) ==
    IF \E i \in 1..Len(items) : items[i].t = "map"
    THEN items[CHOOSE i \in 1..Len(items) :
                   items[i].t = "map" /\ \A j \in 1..(i - 1) : items[j].t # "map"]
    ELSE JNull

\* the names of the entries of a JSON array that are objects with a string name
NamedArtists(artists) ==
    LET named == SelectSeq(artists, LAMBDA a : a.t = "map" /\ a.v.name.t = "str") IN
    [i \in 1..Len(named) |-> named[i].v.name.v]

\* C21: a 200 response that is a JSON object never makes search_track raise:
\* without an object `tracks`, an array `items` or an object among the items
\* the result is null; otherwise the summary is built from the first object
\* among the items, its artists being the string names of the object entries
\* of an array `artists` (none otherwise) and its URL empty unless
\* `external_urls` is an object.
C21_GracefulDegradation ==
    Len(fn_out) = 1 /\ ObjectReply =>
        /\ fn_out[1].ok
        /\ LET tracks == fn_arg.body.v.tracks IN
           IF tracks.t # "map" THEN fn_out[1].summary = None
           ELSE IF tracks.v.items.t # "seq" THEN fn_out[1].summary = None
           ELSE IF FirstObject(tracks.v.items.v) = JNull THEN fn_out[1].summary = None
           ELSE LET first == FirstObject(tracks.v.items.v).v IN
                /\ fn_out[1].summary # None
                /\ first.id.t = "str" => fn_out[1].summary[1].id = first.id.v
                /\ first.name.t = "str" => fn_out[1].summary[1].name = first.name.v
                /\ fn_out[1].summary[1].artists =
                       IF first.artists.t = "seq" THEN NamedArtists(first.artists.v) ELSE <<>>
                /\ first.external_urls.t # "map" => fn_out[1].summary[1].external_url = <<>>
                /\ first.external_urls.t = "map" /\ first.external_urls.v.spotify.t = "str" =>
                       fn_out[1].summary[1].external_url = first.external_urls.v.spotify.v

\* a summary was built from the second element of the items, the first not
\* being an object, with one of three artist entries kept and no URL
C21_Witness ==
    /\ Len(fn_out) = 1
    /\ ObjectReply
    /\ fn_arg.body.v.tracks.t = "map"
    /\ fn_arg.body.v.tracks.v.items.t = "seq"
    /\ Len(fn_arg.body.v.tracks.v.items.v) = 3
    /\ fn_out[1].ok
    /\ fn_out[1].summary # None
    /\ fn_out[1].summary[1].id = <<"7">>
    /\ fn_out[1].summary[1].artists = <<<<"x">>>>
    /\ fn_out[1].summary[1].external_url = <<>>

\* the search response under test is non-200 or not a JSON object
BadSearchReply == fn_arg.net = "ok" /\ (fn_arg.status # HTTP_OK \/ fn_arg.body.t # "map")

\* the `error` member of the body of the response under test (JNull: none)
ErrorMember == IF fn_arg.body.t = "map" THEN GetOrNull(fn_arg.body.v.error) ELSE JNull

\* the body of the response under test has an error object with a message
HasExplicitMessage ==
    /\ ErrorMember.t = "map"
    /\ ErrorMember.v.message.t \notin {"absent", "null"}

\* C22 as stated: a search response that is non-200 or not a JSON object
\* raises SpotifyAPIError carrying the body's error.message when there is
\* one, else the raw response body, else the status.
C22_ErrorDetail_AsStated ==
    Len(fn_out) = 1 /\ BadSearchReply =>
        /\ ~fn_out[1].ok
        /\ fn_out[1].error = "SpotifyAPIError"
        /\ IF HasExplicitMessage
           THEN /\ fn_out[1].detail.from = "error.message"
                /\ fn_out[1].detail.value = PyStr(ErrorMember.v.message)
           ELSE IF ResponseText(fn_arg.body) # <<>>
                THEN fn_out[1].detail.from = "response.text"
                ELSE fn_out[1].status_shown

\* C22 amended: a search response that is non-200 or not a JSON object raises
\* SpotifyAPIError. For a non-200 response the error shows the status and a
\* detail: the body's error.message when there is one, else the body's error
\* value when it is an object or otherwise truthy, else the raw response body
\* when it is not empty, else "Unknown error". For a 200 response that is not
\* a JSON object the error is a fixed description without detail or status.
C22_ErrorDetail ==
    Len(fn_out) = 1 /\ BadSearchReply =>
        /\ ~fn_out[1].ok
        /\ fn_out[1].error = "SpotifyAPIError"
        /\ fn_out[1].status_shown <=> fn_arg.status # HTTP_OK
        /\ IF fn_arg.status = HTTP_OK THEN fn_out[1].detail.from = "none"
           ELSE IF HasExplicitMessage
           THEN /\ fn_out[1].detail.from = "error.message"
                /\ fn_out[1].detail.value = PyStr(ErrorMember.v.message)
           ELSE IF ErrorMember.t = "map" \/ JTruthy(ErrorMember)
           THEN fn_out[1].detail.from = "error"
           ELSE IF ResponseText(fn_arg.body) # <<>>
           THEN fn_out[1].detail.from = "response.text"
           ELSE fn_out[1].detail = [from |-> "default", value |-> UnknownError]

\* a 429 response whose body has error.message "m" raised an error with detail "m"
C22_Witness ==
    /\ Len(fn_out) = 1
    /\ BadSearchReply
    /\ fn_arg.status # HTTP_OK
    /\ HasExplicitMessage
    /\ ~fn_out[1].ok
    /\ fn_out[1].detail = [from |-> "error.message", value |-> <<"m">>]

\* C23: startup never fails for missing credentials, and while the
\* application runs spotify_client is a client exactly when the Spotify client
\* id and secret are both set, and telegram_client is a client when the bot
\* token and the channel id are set and null when they are missing.
C23_StartupState ==
    Len(fn_out) = 1 =>
        /\ fn_out[1].raised = ""
        /\ fn_out[1].spotify_client # None <=>
               Truthy(fn_arg.spotify_client_id) /\ Truthy(fn_arg.spotify_client_secret)
        /\ Truthy(fn_arg.telegram_bot_token) /\ Truthy(fn_arg.telegram_channel_id) =>
               fn_out[1].telegram_client # None
        /\ ~Truthy(fn_arg.telegram_bot_token) /\ ~Truthy(fn_arg.telegram_channel_id) =>
               fn_out[1].telegram_client = None

\* the result of fn in this state, when fn is the function that was applied
Applied(fn) == Len(fn_out) >= 1 /\ fn_out[1].fn = fn

\* the parts of q around its first dash, trimmed (q has a dash)
AroundFirstDash(q) ==
    LET d == CHOOSE i \in 1..Len(q) : q[i] \in Dashes /\ \A j \in 1..(i - 1) : q[j] \notin Dashes IN
    <<Strip(SubSeq(q, 1, d - 1)), Strip(SubSeq(q, d + 1, Len(q)))>>

\* C24: split_artist_title splits at the first hyphen, en dash or em dash only
\* and returns the two trimmed parts exactly when both are non-empty, null
\* otherwise; "A - B - C" gives ("A", "B - C"), "Artist - " and "NoSeparator"
\* give null.
C24_SplitAtFirstDash ==
    Applied("split_artist_title") =>
        LET out == fn_out[1].value
            dashed == fn_arg # Null /\ \E i \in 1..Len(fn_arg) : fn_arg[i] \in Dashes IN
        /\ ~dashed => out = None
        /\ dashed =>
              LET parts == AroundFirstDash(fn_arg) IN
              IF parts[1] # <<>> /\ parts[2] # <<>> THEN out = Some(parts) ELSE out = None
        /\ fn_arg = <<"A", " ", "-", " ", "B", " ", "-", " ", "C">> =>
              out = Some(<<(<<"A">>), <<"B", " ", "-", " ", "C">>>>)
        /\ fn_arg = <<"A", "r", "t", "i", "s", "t", " ", "-", " ">> => out = None
        /\ fn_arg = <<"N", "o", "S", "e", "p", "a", "r", "a", "t", "o", "r">> => out = None

\* a query with two separators was split, and its title kept the second one
C24_Witness ==
    /\ Applied("split_artist_title")
    /\ fn_out[1].value # None
    /\ \E i \in 1..Len(fn_out[1].value[1][2]) : fn_out[1].value[1][2][i] \in Dashes

\* C25: extract_track_query returns null for null, empty and whitespace-only
\* input; otherwise the input trimmed with every whitespace run replaced by one
\* space, which is never empty, never starts or ends with whitespace, and is
\* returned unchanged when the function is applied to it again.
C25_QueryNormalForm ==
    Applied("extract_track_query") =>
        LET out == fn_out[1].value IN
        /\ (fn_arg = Null \/ IsBlank(fn_arg)) => out = Null
        /\ (fn_arg # Null /\ ~IsBlank(fn_arg)) =>
              /\ out # Null
              /\ out = JoinWords(Words(fn_arg))
              /\ out # <<>>
              /\ out[1] \notin Whitespace
              /\ out[Len(out)] \notin Whitespace
              /\ Len(fn_out) = 2 => fn_out[2].value = out

\* an input with a whitespace run inside was normalized and normalized again
C25_Witness ==
    /\ Applied("extract_track_query")
    /\ Len(fn_out) = 2
    /\ fn_out[1].value # Null
    /\ fn_out[1].value # Strip(fn_arg)

\* C26: build_track_candidate returns null exactly when the content is null
\* or normalizes to null; otherwise a candidate with the input as raw_content,
\* the normalized content as its non-null query, and artist and title both
\* from split_artist_title(query) or both null.
C26_CandidateShape ==
    Applied("build_track_candidate") =>
        LET out == fn_out[1].value
            normal == IF fn_arg = Null \/ IsBlank(fn_arg) THEN Null ELSE JoinWords(Words(fn_arg)) IN
        /\ out = None <=> (fn_arg = Null \/ normal = Null)
        /\ out # None =>
              LET c == out[1]
                  split == split_artist_title(c.query) IN
              /\ c.raw_content = fn_arg
              /\ c.query = normal
              /\ c.query # Null
              /\ c.query = extract_track_query(fn_arg)
              /\ IF split = None
                 THEN c.artist = Null /\ c.title = Null
                 ELSE c.artist = split[1][1] /\ c.title = split[1][2]

\* a candidate with artist and title was built from content that normalization changed
C26_Witness ==
    /\ Applied("build_track_candidate")
    /\ fn_out[1].value # None
    /\ fn_out[1].value[1].artist # Null
    /\ fn_out[1].value[1].query # fn_arg

\* s without its leading and trailing whitespace (s is not blank)
Trimmed(s) ==
    LET inner == {i \in 1..Len(s) : s[i] \notin Whitespace}
        first == CHOOSE i \in inner : \A j \in inner : i <= j
        last == CHOOSE i \in inner : \A j \in inner : j <= i IN
    SubSeq(s, first, last)

\* whether the reply says ok: it is a 200 JSON object whose ok is true
SaysOk(resp) ==
    /\ resp.net = "ok"
    /\ resp.status = HTTP_OK
    /\ resp.body.t = "map"
    /\ resp.body.v.ok = JBool(TRUE)

\* C27: edit_message_caption posts the caption without its outer whitespace
\* to the explicit chat_id when one is given and to the client's channel_id
\* otherwise; a whitespace-only caption or a missing target chat raises
\* ValueError before any request; a reply that is non-200, not a JSON object
\* or not ok raises TelegramAPIError, and the response object is returned only
\* when ok is true.
C27_EditContract ==
    Len(fn_out) >= 1 =>
        LET call == fn_out[1]
            given == fn_arg.chat_id # Null /\ fn_arg.chat_id # <<>>
            missing == ~given /\ fn_arg.client.channel_id = <<>> IN
        /\ (IsBlank(fn_arg.caption) \/ missing) =>
              call.error = "ValueError" /\ call.requests = <<>>
        /\ ~(IsBlank(fn_arg.caption) \/ missing) =>
              /\ call.error = ""
              /\ Len(call.requests) = 1
              /\ call.requests[1].caption = Trimmed(fn_arg.caption)
              /\ call.requests[1].chat_id =
                     IF given THEN fn_arg.chat_id ELSE fn_arg.client.channel_id
        /\ Len(fn_out) = 2 =>
              LET reply == fn_out[2] IN
              /\ (reply.resp.net = "ok" /\ ~SaysOk(reply.resp)) =>
                     reply.error = "TelegramAPIError" /\ reply.returned = None
              /\ reply.returned # None => SaysOk(reply.resp) /\ reply.returned = Some(reply.resp.body)
              /\ SaysOk(reply.resp) => reply.returned # None

\* both outcomes of a call that posted a padded caption to the explicit chat
C27_Witness ==
    /\ Len(fn_out) = 2
    /\ fn_arg.chat_id = <<"d">>
    /\ fn_arg.client.channel_id = <<"c">>
    /\ fn_arg.caption = <<" ", "a">>
    /\ fn_out[2].error = "TelegramAPIError"
    /\ fn_out[2].resp.status = HTTP_OK

\* C28: under any interleaving of concurrent get_access_token calls the cached
\* token is only ever replaced by a fresher one: its acquired_at never
\* decreases.
C28_CacheOnlyFreshens ==
    [][(token_cache # None /\ token_cache' # None) =>
           token_cache'[1].acquired_at >= token_cache[1].acquired_at]_vars

\* the first object among the items of the search response under test has no
\* id (absent or null) and no usable external URL
FirstItemWithoutIdAndUrl ==
    /\ ObjectReply
    /\ fn_arg.body.v.tracks.t = "map"
    /\ fn_arg.body.v.tracks.v.items.t = "seq"
    /\ LET first == FirstObject(fn_arg.body.v.tracks.v.items.v) IN
       /\ first # JNull
       /\ first.v.id.t \in {"absent", "null"}
       /\ \/ first.v.external_urls.t # "map"
          \/ first.v.external_urls.v.spotify.t \in {"absent", "null"}
          \/ first.v.external_urls.v.spotify.t = "str"
                 /\ IsBlank(first.v.external_urls.v.spotify.v)

\* C29: when the first object of the search results has an absent or null id
\* and no usable external URL, the summary has an empty id and no link is
\* derived from it, so no caption edit follows.
C29_NoLinkFromMissingId ==
    Len(fn_out) = 1 /\ FirstItemWithoutIdAndUrl =>
        /\ fn_out[1].ok
        /\ fn_out[1].summary # None
        /\ fn_out[1].summary[1].id = <<>>
        /\ Strip(build_spotify_link(fn_out[1].summary[1])) = <<>>
        /\ build_caption_with_spotify_link(Null, fn_out[1].summary[1]) = Null

\* the step is a get_access_token call that ends by raising
CallFails == fn_out = <<>> /\ fn_out' # <<>> /\ ~fn_out'[1].ok

\* the step is a call with the arguments and the clock of a call that raised
CallRepeatsFailed ==
    /\ fn_out # <<>> /\ ~fn_out[1].ok
    /\ delivered' = delivered + 1
    /\ fn_arg'.force_refresh = fn_arg.force_refresh
    /\ fn_arg'.buffer_seconds = fn_arg.buffer_seconds
    /\ fn_arg'.clock = fn_out[1].clock

\* C30: a get_access_token call that raises (non-200, malformed body or
\* network failure) leaves the cache exactly as it was before the call, and
\* a later call under the same conditions issues a new token request.
C30_FailedCallKeepsCache ==
    [][/\ CallFails => token_cache' = token_cache /\ token_cache' = fn_arg.cache
       /\ CallRepeatsFailed =>
              /\ fn_out' = <<>>
              /\ \E p \in Requests : pc'[p] = "await_token" /\ token_requests'[p] = 1]_vars

\* a forced refresh of a cached token failed on the network and the token is
\* still cached
C30_Witness ==
    /\ Len(fn_out) = 1
    /\ ~fn_out[1].ok
    /\ fn_out[1].resp.net # "ok"
    /\ fn_arg.cache # None
    /\ token_cache = fn_arg.cache

====
